---- MODULE Spec2Model ----
(***************************************************************************)
(* Storefront backend: product creation and the checkout handler of        *)
(* src/main.py over the "product" and "order" collections.                 *)
(*                                                                         *)
(* A checkout call is a sequence of steps, one per database access of      *)
(* create_checkout: one validation step per cart line (find_one and the    *)
(* checks and local computation that follow it), the order insertion, and  *)
(* for every recorded stock update the $inc, the re-read and the           *)
(* conditional $set.  Spec runs the requests one at a time; SpecConc lets  *)
(* the steps of several calls interleave.                                  *)
(***************************************************************************)
EXTENDS Integers, Sequences, FiniteSets

\* ---------------------------------------------------------------- bounds
NumProducts == 2      \* product documents that may be created
MaxStock    == 2      \* largest stock_qty given to a new product
MaxPrice8   == 2      \* largest price of a new product, in eighths of a major unit
MaxQty      == 2      \* largest quantity on a cart line
MaxLines    == 2      \* longest cart
MaxOrders   == 2      \* checkout calls accepted once this many orders exist: none
NumCalls    == 2      \* request slots (threads of the server)
NumUpperIds == 1      \* ObjectIds that carts also spell in upper case

\* ---------------------------------------------------------------- values
Calls      == 1..NumCalls
ObjectIds  == 1..NumProducts

\* An id string is either 24 hex digits, which spell an ObjectId, or not. The
\* digits a-f may come in lower case, as str(ObjectId) writes them, or in upper case.
HexStr(n)  == <<"hex", n>>
UpperHexStr(n) == <<"HEX", n>>
JunkStr    == <<"junk", 0>>
IdStrs     == {HexStr(n) : n \in ObjectIds}
              \cup {UpperHexStr(n) : n \in ObjectIds \cap (1..NumUpperIds)}
              \cup {JunkStr}

\* Optional[int]: <<>> is None, <<n>> is the integer n.
None       == <<>>
Some(n)    == <<n>>

NoDoc      == [title |-> "", price |-> 0, images |-> <<>>, in_stock |-> FALSE,
               stock_qty |-> None, exists |-> FALSE]

Titles     == {"bag"}
ImageLists == {<<"img1", "img2">>}
\* price is a float >= 0; the model takes the prices k/8, which are exact as floats.
Prices     == 1..MaxPrice8
Quantities == (-1)..MaxQty

\* schemas.Product: what POST /api/products accepts.
Product    == [title : Titles, price : Prices, images : ImageLists,
               in_stock : BOOLEAN,
               stock_qty : {None} \cup {Some(n) : n \in 0..MaxStock},
               exists : {TRUE}]

\* CartItem and CheckoutRequest.items
CartItem   == [product_id : IdStrs, quantity : Quantities]
CartsOfLen(n) == [1..n -> CartItem]
Carts      == UNION {CartsOfLen(n) : n \in 0..MaxLines}

NoResponse == [code |-> 0, detail |-> "", order_id |-> <<"none", 0>>,
               status |-> "", subtotal |-> 0, currency |-> ""]

VARIABLES
    products,        \* db["product"]: ObjectId -> document (NoDoc: no such document)
    orders,          \* db["order"]: the inserted documents, in insertion order
    pc,              \* per call: where create_checkout stands
    items,           \* per call: req.items
    idx,             \* per call: the position of the running for loop
    order_items,     \* per call: order_items
    subtotal_cents,  \* per call: subtotal_cents
    stock_updates,   \* per call: stock_updates
    order_id,        \* per call: order_id
    pdoc,            \* per call: pdoc, the re-read product
    response,        \* per call: the HTTP response
    created,         \* history: every product as it was inserted
    pre              \* history: products and orders when the call began

vars == <<products, orders, pc, items, idx, order_items, subtotal_cents,
          stock_updates, order_id, pdoc, response, created, pre>>

locals == <<items, idx, order_items, subtotal_cents, stock_updates, order_id, pdoc>>

\* ---------------------------------------------------------------- helpers

\* ensure_object_id: ObjectId(id_str), or 0 where ObjectId() raises.
ensure_object_id(id_str) == IF id_str[1] \in {"hex", "HEX"} THEN id_str[2] ELSE 0

\* str(ObjectId): the 24 digits in lower case
str(oid) == <<"hex", oid>>

\* db["product"].find_one({"_id": pid})
find_one(pid) == IF pid \in DOMAIN products THEN products[pid] ELSE NoDoc

\* Python's round() on num/den: to the nearest integer, ties to the even one.
RoundHalfEven(num, den) ==
    LET q == num \div den
        r == num % den
    IN  IF 2 * r < den THEN q
        ELSE IF 2 * r > den THEN q + 1
        ELSE IF q % 2 = 0 THEN q ELSE q + 1

\* Mutant: ties rounded up instead of to the even neighbour.
UnitAmountHalfUp(price8) == (price8 * 100 * 2 + 8) \div (2 * 8)

\* int(round(float(price) * 100)) for the price price8/8
UnitAmount(price8) == RoundHalfEven(price8 * 100, 8)

\* Mutant: the in_stock flag not looked at.
StockCheckIgnoringFlag(prod, quantity) ==
    IF prod.stock_qty = None THEN "raises"
    ELSE IF prod.stock_qty[1] < quantity THEN "insufficient"
    ELSE "ok"

\* Mutant: "<=" for "<", which turns away a cart that asks for all that is left.
StockCheckOffByOne(prod, quantity) ==
    IF ~prod.in_stock THEN "insufficient"
    ELSE IF prod.stock_qty = None THEN "raises"
    ELSE IF prod.stock_qty[1] <= quantity THEN "insufficient"
    ELSE "ok"

\* not prod.get("in_stock", True) or (prod.get("stock_qty", 0) < item.quantity)
\* "raises" where the comparison is None < int.
StockCheck(prod, quantity) ==
    IF ~prod.in_stock THEN "insufficient"
    ELSE IF prod.stock_qty = None THEN "raises"
    ELSE IF prod.stock_qty[1] < quantity THEN "insufficient"
    ELSE "ok"

\* first_image
FirstImage(prod) == IF Len(prod.images) > 0 THEN <<prod.images[1]>> ELSE None

\* Mutant: every item written as a single unit.
OrderItemOneUnit(prod, pid, unit_amount, quantity) ==
    [product_id |-> str(pid), title |-> prod.title, unit_amount |-> unit_amount,
     quantity |-> 1, image |-> FirstImage(prod)]

\* OrderItem(...)
OrderItem(prod, pid, unit_amount, quantity) ==
    [product_id |-> str(pid), title |-> prod.title, unit_amount |-> unit_amount,
     quantity |-> quantity, image |-> FirstImage(prod)]

\* Mutant: quantity left unconstrained, as it is on CartItem.
OrderItemValidAnyQuantity(oi) == oi.unit_amount >= 0

\* OrderItem's field constraints: unit_amount >= 0, quantity >= 1
OrderItemValid(oi) == oi.unit_amount >= 0 /\ oi.quantity >= 1

\* Order(items=order_items, subtotal=subtotal_cents)
Order(its, subtotal) ==
    [items |-> its, currency |-> "usd", subtotal |-> subtotal, status |-> "pending",
     checkout_session_id |-> None]

\* create_document: inserts the document under a fresh ObjectId and returns the id.
NewOrderId == Len(orders) + 1
NewProductId == Cardinality({p \in ObjectIds : products[p].exists}) + 1

HttpError(code, detail) == [NoResponse EXCEPT !.code = code, !.detail = detail]

Busy(c) == pc[c] \notin {"idle", "crashed"}
InFlight == {c \in Calls : Busy(c)}

\* ---------------------------------------------------------------- Init
Init ==
    /\ products = [p \in ObjectIds |-> NoDoc]
    /\ orders = <<>>
    /\ pc = [c \in Calls |-> "idle"]
    /\ items = [c \in Calls |-> <<>>]
    /\ idx = [c \in Calls |-> 0]
    /\ order_items = [c \in Calls |-> <<>>]
    /\ subtotal_cents = [c \in Calls |-> 0]
    /\ stock_updates = [c \in Calls |-> <<>>]
    /\ order_id = [c \in Calls |-> <<"none", 0>>]
    /\ pdoc = [c \in Calls |-> NoDoc]
    /\ response = [c \in Calls |-> NoResponse]
    /\ created = [p \in ObjectIds |-> NoDoc]
    /\ pre = [c \in Calls |-> [products |-> [p \in ObjectIds |-> NoDoc], orders |-> <<>>]]

\* ---------------------------------------------------------------- actions

\* POST /api/products
CreateProduct(product) ==
    /\ NewProductId \in ObjectIds
    /\ products' = [products EXCEPT ![NewProductId] = product]
    /\ created' = [created EXCEPT ![NewProductId] = product]
    /\ UNCHANGED <<orders, pc, locals, response, pre>>

\* Mutant: no empty-cart check; the loop over no lines falls through to the insertion.
CheckoutBeginNoEmptyCheck(c, cart) ==
    /\ pc[c] = "idle"
    /\ Len(orders) + Cardinality(InFlight) < MaxOrders
    /\ items' = [items EXCEPT ![c] = cart]
    /\ pre' = [pre EXCEPT ![c] = [products |-> products, orders |-> orders]]
    /\ order_items' = [order_items EXCEPT ![c] = <<>>]
    /\ subtotal_cents' = [subtotal_cents EXCEPT ![c] = 0]
    /\ stock_updates' = [stock_updates EXCEPT ![c] = <<>>]
    /\ order_id' = [order_id EXCEPT ![c] = <<"none", 0>>]
    /\ pdoc' = [pdoc EXCEPT ![c] = NoDoc]
    /\ response' = [response EXCEPT ![c] = NoResponse]
    /\ pc' = [pc EXCEPT ![c] = IF cart = <<>> THEN "persist" ELSE "validate"]
    /\ idx' = [idx EXCEPT ![c] = IF cart = <<>> THEN 0 ELSE 1]
    /\ UNCHANGED <<products, orders, created>>

\* POST /api/checkout arrives: the empty-cart check and the locals' initialisation.
CheckoutBegin(c, cart) ==
    /\ pc[c] = "idle"
    /\ Len(orders) + Cardinality(InFlight) < MaxOrders
    /\ items' = [items EXCEPT ![c] = cart]
    /\ pre' = [pre EXCEPT ![c] = [products |-> products, orders |-> orders]]
    /\ order_items' = [order_items EXCEPT ![c] = <<>>]
    /\ subtotal_cents' = [subtotal_cents EXCEPT ![c] = 0]
    /\ stock_updates' = [stock_updates EXCEPT ![c] = <<>>]
    /\ order_id' = [order_id EXCEPT ![c] = <<"none", 0>>]
    /\ pdoc' = [pdoc EXCEPT ![c] = NoDoc]
    /\ IF cart = <<>>
       THEN /\ response' = [response EXCEPT ![c] = HttpError(400, "Cart is empty")]
            /\ pc' = [pc EXCEPT ![c] = "done"]
            /\ idx' = [idx EXCEPT ![c] = 0]
       ELSE /\ response' = [response EXCEPT ![c] = NoResponse]
            /\ pc' = [pc EXCEPT ![c] = "validate"]
            /\ idx' = [idx EXCEPT ![c] = 1]
    /\ UNCHANGED <<products, orders, created>>

\* The outcome of one pass of the validation loop for cart line `item`.
LineOutcome(item) ==
    LET pid  == ensure_object_id(item.product_id)
        prod == find_one(pid)
        chk  == StockCheck(prod, item.quantity)
        oi   == OrderItem(prod, pid, UnitAmount(prod.price), item.quantity)
    IN  IF pid = 0 THEN [err |-> HttpError(400, "Invalid ID format"), ok |-> FALSE]
        ELSE IF ~prod.exists THEN [err |-> HttpError(404, "Product not found"), ok |-> FALSE]
        ELSE IF chk = "insufficient"
             THEN [err |-> HttpError(400, "Insufficient stock"), ok |-> FALSE]
        ELSE IF chk = "raises" THEN [err |-> HttpError(500, "TypeError"), ok |-> FALSE]
        ELSE IF ~OrderItemValid(oi)
             THEN [err |-> HttpError(500, "ValidationError"), ok |-> FALSE]
        ELSE [err |-> NoResponse, ok |-> TRUE]

\* Mutant: the stock decrement done inside the validation loop, line by line.
CheckoutValidateEager(c) ==
    /\ pc[c] = "validate"
    /\ LET item == items[c][idx[c]]
           pid  == ensure_object_id(item.product_id)
           prod == find_one(pid)
           unit_amount == UnitAmount(prod.price)
           out  == LineOutcome(item)
       IN  IF ~out.ok
           THEN /\ response' = [response EXCEPT ![c] = out.err]
                /\ pc' = [pc EXCEPT ![c] = "done"]
                /\ UNCHANGED <<idx, order_items, subtotal_cents, stock_updates, products>>
           ELSE /\ subtotal_cents' = [subtotal_cents EXCEPT
                                        ![c] = @ + unit_amount * item.quantity]
                /\ order_items' = [order_items EXCEPT
                     ![c] = Append(@, OrderItem(prod, pid, unit_amount, item.quantity))]
                /\ stock_updates' = [stock_updates EXCEPT
                     ![c] = Append(@, [pid |-> pid, qty |-> item.quantity])]
                /\ products' = [products EXCEPT ![pid].stock_qty = Some(@[1] - item.quantity)]
                /\ IF idx[c] < Len(items[c])
                   THEN /\ idx' = [idx EXCEPT ![c] = @ + 1]
                        /\ pc' = pc
                   ELSE /\ idx' = [idx EXCEPT ![c] = 0]
                        /\ pc' = [pc EXCEPT ![c] = "persist"]
                /\ UNCHANGED response
    /\ UNCHANGED <<orders, items, order_id, pdoc, created, pre>>

\* One pass of "for item in req.items".
CheckoutValidate(c) ==
    /\ pc[c] = "validate"
    /\ LET item == items[c][idx[c]]
           pid  == ensure_object_id(item.product_id)
           prod == find_one(pid)
           unit_amount == UnitAmount(prod.price)
           out  == LineOutcome(item)
       IN  IF ~out.ok
           THEN /\ response' = [response EXCEPT ![c] = out.err]
                /\ pc' = [pc EXCEPT ![c] = "done"]
                /\ UNCHANGED <<idx, order_items, subtotal_cents, stock_updates>>
           ELSE /\ subtotal_cents' = [subtotal_cents EXCEPT
                                        ![c] = @ + unit_amount * item.quantity]
                /\ order_items' = [order_items EXCEPT
                     ![c] = Append(@, OrderItem(prod, pid, unit_amount, item.quantity))]
                /\ stock_updates' = [stock_updates EXCEPT
                     ![c] = Append(@, [pid |-> pid, qty |-> item.quantity])]
                /\ IF idx[c] < Len(items[c])
                   THEN /\ idx' = [idx EXCEPT ![c] = @ + 1]
                        /\ pc' = pc
                   ELSE /\ idx' = [idx EXCEPT ![c] = 0]
                        /\ pc' = [pc EXCEPT ![c] = "persist"]
                /\ UNCHANGED response
    /\ UNCHANGED <<products, orders, items, order_id, pdoc, created, pre>>

\* order = Order(...); order_id = create_document("order", order)
CheckoutPersist(c) ==
    /\ pc[c] = "persist"
    /\ LET order == Order(order_items[c], subtotal_cents[c])
           doc   == [id |-> str(NewOrderId), order |-> order]
       IN  /\ orders' = Append(orders, doc)
           /\ order_id' = [order_id EXCEPT ![c] = doc.id]
    /\ idx' = [idx EXCEPT ![c] = 1]
    /\ pc' = [pc EXCEPT ![c] = "inc"]
    /\ UNCHANGED <<products, items, order_items, subtotal_cents, stock_updates,
                   pdoc, response, created, pre>>

\* Mutant: the decrement applied twice.
IncStockTwice(doc, qty) ==
    IF doc.exists /\ doc.stock_qty # None
    THEN [doc EXCEPT !.stock_qty = Some(doc.stock_qty[1] - 2 * qty)]
    ELSE doc

\* Mutant: a write that does nothing.
IncStockLost(doc, qty) == doc

\* update_one({"_id": pid}, {"$inc": {"stock_qty": -qty}})
IncStock(doc, qty) ==
    IF doc.exists /\ doc.stock_qty # None
    THEN [doc EXCEPT !.stock_qty = Some(doc.stock_qty[1] - qty)]
    ELSE doc

\* Mutant: the update's filter left empty, so every product is decremented.
CheckoutIncAllProducts(c) ==
    /\ pc[c] = "inc"
    /\ LET u == stock_updates[c][idx[c]]
       IN  products' = [p \in ObjectIds |-> IncStock(products[p], u.qty)]
    /\ pc' = [pc EXCEPT ![c] = "find"]
    /\ UNCHANGED <<orders, locals, response, created, pre>>

\* Mutant: a read-modify-write from the stock the call saw when it began, in
\* place of the atomic $inc.
CheckoutIncFromSnapshot(c) ==
    /\ pc[c] = "inc"
    /\ LET u == stock_updates[c][idx[c]]
       IN  products' = [products EXCEPT ![u.pid].stock_qty =
                           Some(pre[c].products[u.pid].stock_qty[1] - u.qty)]
    /\ pc' = [pc EXCEPT ![c] = "find"]
    /\ UNCHANGED <<orders, locals, response, created, pre>>

CheckoutInc(c) ==
    /\ pc[c] = "inc"
    /\ LET u == stock_updates[c][idx[c]]
       IN  products' = [products EXCEPT ![u.pid] = IncStock(@, u.qty)]
    /\ pc' = [pc EXCEPT ![c] = "find"]
    /\ UNCHANGED <<orders, locals, response, created, pre>>

\* Mutant: no re-read; the new stock is worked out from the product as the call
\* saw it when it began.
CheckoutFindFromSnapshot(c) ==
    /\ pc[c] = "find"
    /\ LET u == stock_updates[c][idx[c]]
           seen == pre[c].products[u.pid]
       IN  pdoc' = [pdoc EXCEPT ![c] =
                      [seen EXCEPT !.stock_qty = Some(seen.stock_qty[1] - u.qty)]]
    /\ pc' = [pc EXCEPT ![c] = "set"]
    /\ UNCHANGED <<products, orders, items, idx, order_items, subtotal_cents,
                   stock_updates, order_id, response, created, pre>>

\* pdoc = db["product"].find_one({"_id": pid})
CheckoutFind(c) ==
    /\ pc[c] = "find"
    /\ pdoc' = [pdoc EXCEPT ![c] = find_one(stock_updates[c][idx[c]].pid)]
    /\ pc' = [pc EXCEPT ![c] = "set"]
    /\ UNCHANGED <<products, orders, items, idx, order_items, subtotal_cents,
                   stock_updates, order_id, response, created, pre>>

\* Mutant: "<" for "<=", so a product sold down to exactly zero stays in stock.
SoldOutBelowZero(doc) == doc.exists /\ doc.stock_qty # None /\ doc.stock_qty[1] < 0

\* pdoc and pdoc.get("stock_qty", 0) <= 0
SoldOut(doc) == doc.exists /\ doc.stock_qty # None /\ doc.stock_qty[1] <= 0

\* if ...: update_one({"_id": pid}, {"$set": {"in_stock": False}}); next update
CheckoutSet(c) ==
    /\ pc[c] = "set"
    /\ LET u == stock_updates[c][idx[c]]
       IN  IF SoldOut(pdoc[c])
           THEN products' = [products EXCEPT ![u.pid] =
                               IF @.exists THEN [@ EXCEPT !.in_stock = FALSE] ELSE @]
           ELSE products' = products
    /\ IF idx[c] < Len(stock_updates[c])
       THEN /\ idx' = [idx EXCEPT ![c] = @ + 1]
            /\ pc' = [pc EXCEPT ![c] = "inc"]
       ELSE /\ idx' = [idx EXCEPT ![c] = 0]
            /\ pc' = [pc EXCEPT ![c] = "return"]
    /\ UNCHANGED <<orders, items, order_items, subtotal_cents, stock_updates,
                   order_id, pdoc, response, created, pre>>

\* Mutant: the stored order's status brought in line with the response.
CheckoutReturnConfirming(c) ==
    /\ pc[c] = "return"
    /\ LET order == Order(order_items[c], subtotal_cents[c])
       IN  response' = [response EXCEPT ![c] =
               [code |-> 200, detail |-> "", order_id |-> order_id[c],
                status |-> "confirmed", subtotal |-> order.subtotal,
                currency |-> order.currency]]
    /\ orders' = [k \in 1..Len(orders) |->
                    IF orders[k].id = order_id[c]
                    THEN [orders[k] EXCEPT !.order.status = "confirmed"]
                    ELSE orders[k]]
    /\ pc' = [pc EXCEPT ![c] = "done"]
    /\ UNCHANGED <<products, locals, created, pre>>

\* return {"order_id": ..., "status": "confirmed", "subtotal": ..., "currency": ...}
CheckoutReturn(c) ==
    /\ pc[c] = "return"
    /\ LET order == Order(order_items[c], subtotal_cents[c])
       IN  response' = [response EXCEPT ![c] =
               [code |-> 200, detail |-> "", order_id |-> order_id[c],
                status |-> "confirmed", subtotal |-> order.subtotal,
                currency |-> order.currency]]
    /\ pc' = [pc EXCEPT ![c] = "done"]
    /\ UNCHANGED <<products, orders, locals, created, pre>>

\* The response has been sent and the handler's frame is gone.
CheckoutEnd(c) ==
    /\ pc[c] = "done"
    /\ pc' = [pc EXCEPT ![c] = "idle"]
    /\ items' = [items EXCEPT ![c] = <<>>]
    /\ idx' = [idx EXCEPT ![c] = 0]
    /\ order_items' = [order_items EXCEPT ![c] = <<>>]
    /\ subtotal_cents' = [subtotal_cents EXCEPT ![c] = 0]
    /\ stock_updates' = [stock_updates EXCEPT ![c] = <<>>]
    /\ order_id' = [order_id EXCEPT ![c] = <<"none", 0>>]
    /\ pdoc' = [pdoc EXCEPT ![c] = NoDoc]
    /\ response' = [response EXCEPT ![c] = NoResponse]
    /\ pre' = [pre EXCEPT ![c] = [products |-> [p \in ObjectIds |-> NoDoc], orders |-> <<>>]]
    /\ UNCHANGED <<products, orders, created>>

\* The handler halts part-way (the process dies, the store becomes unreachable):
\* nothing catches it and nothing undoes what it has written. The frame is gone;
\* what is kept of it is the record of the loss: the order id, the stock updates
\* and, in idx, how many of them had their $inc run.
CrashPoints == {"validate", "persist", "inc", "find", "set", "return"}

Crash(c) ==
    /\ pc[c] \in CrashPoints
    /\ pc' = [pc EXCEPT ![c] = "crashed"]
    /\ idx' = [idx EXCEPT ![c] =
                 IF pc[c] = "inc" THEN idx[c] - 1
                 ELSE IF pc[c] \in {"find", "set"} THEN idx[c]
                 ELSE IF pc[c] = "return" THEN Len(stock_updates[c])
                 ELSE 0]
    /\ stock_updates' = [stock_updates EXCEPT
                           ![c] = IF pc[c] \in {"validate", "persist"} THEN <<>> ELSE @]
    /\ items' = [items EXCEPT ![c] = <<>>]
    /\ order_items' = [order_items EXCEPT ![c] = <<>>]
    /\ subtotal_cents' = [subtotal_cents EXCEPT ![c] = 0]
    /\ pdoc' = [pdoc EXCEPT ![c] = NoDoc]
    /\ response' = [response EXCEPT ![c] = NoResponse]
    /\ pre' = [pre EXCEPT ![c] = [products |-> [p \in ObjectIds |-> NoDoc], orders |-> <<>>]]
    /\ UNCHANGED <<products, orders, order_id, created>>

\* ---------------------------------------------------------------- specifications

Step(c) ==
    \/ CheckoutValidate(c)
    \/ CheckoutPersist(c)
    \/ CheckoutInc(c)
    \/ CheckoutFind(c)
    \/ CheckoutSet(c)
    \/ CheckoutReturn(c)
    \/ CheckoutEnd(c)

\* One worker: each request runs to its response before the next one is taken.
Next ==
    \/ \E product \in Product : InFlight = {} /\ CreateProduct(product)
    \/ \E cart \in Carts : InFlight = {} /\ CheckoutBegin(1, cart)
    \/ Step(1)

Spec == Init /\ [][Next]_vars

\* Several workers: the steps of the calls interleave. The carts are the ones
\* whose lines name well-formed ids in lower case, with any quantity; the
\* products the ones created in stock at the lowest price.
ConcProducts == {d \in Product : d.in_stock /\ d.stock_qty # None /\ d.price = 1}
ConcCarts ==
    {cart \in Carts :
        /\ cart # <<>>
        /\ \A n \in 1..Len(cart) : cart[n].product_id[1] = "hex"}

NextConc ==
    \/ \E product \in ConcProducts : InFlight = {} /\ CreateProduct(product)
    \/ \E c \in Calls : \E cart \in ConcCarts : CheckoutBegin(c, cart)
    \/ \E c \in Calls : Step(c)

SpecConc == Init /\ [][NextConc]_vars

\* Requests served one at a time by workers that may halt part-way; a halted
\* worker stays down and the next request goes to another one.
NextCrash ==
    \/ \E product \in ConcProducts : InFlight = {} /\ CreateProduct(product)
    \/ \E c \in Calls : \E cart \in ConcCarts : InFlight = {} /\ CheckoutBegin(c, cart)
    \/ \E c \in Calls : Step(c)
    \/ \E c \in Calls : Crash(c)

SpecCrash == Init /\ [][NextCrash]_vars

\* ---------------------------------------------------------------- properties

\* Every call is idle or has its response.
Quiet == \A c \in Calls : pc[c] \in {"idle", "done"}

\* The call has its response and it is the final one.
Returned(c) == pc[c] = "done"
Succeeded(c) == Returned(c) /\ response[c].code = 200

\* The lines of a cart, or of an order's items, that name product p.
RECURSIVE Requested(_, _)
Requested(lines, p) ==
    IF lines = <<>> THEN 0
    ELSE (IF lines[1].product_id \in {HexStr(p), UpperHexStr(p)}
          THEN lines[1].quantity ELSE 0)
         + Requested(Tail(lines), p)

StockOf(doc) == doc.stock_qty[1]
HasStock(doc) == doc.exists /\ doc.stock_qty # None

\* C1: validate-before-persist. When a call ends because a cart line failed
\* validation (malformed id, unknown product, in_stock false, stock_qty below
\* the quantity), the order collection and every product are as they were when
\* the call began, however many earlier lines were valid.
C1_ValidateBeforePersist ==
    \A c \in Calls :
        (Returned(c) /\ response[c].detail \in
            {"Invalid ID format", "Product not found", "Insufficient stock"})
        => (products = pre[c].products /\ orders = pre[c].orders)

\* C1 witness: a call that failed on its second line after a valid first line,
\* against a product that could have been sold.
C1_Witness ==
    \E c \in Calls :
        /\ Returned(c) /\ response[c].code = 404
        /\ idx[c] = 2 /\ Len(order_items[c]) = 1
        /\ products[1].in_stock /\ products[1].stock_qty = Some(2)

\* C2 (as claimed): with the calls run one at a time, no product's stock_qty is
\* ever below zero.
C2_StockNeverNegative ==
    \A p \in ObjectIds : HasStock(products[p]) => StockOf(products[p]) >= 0

\* C3: after a successful call that asked, over all its lines, for Q units of a
\* product that had stock_qty S >= Q and in_stock true when the call began, the
\* product has stock_qty S - Q, and in_stock is true exactly when S - Q > 0.
C3_StockAfterCheckout ==
    \A c \in Calls : \A p \in ObjectIds :
        LET before == pre[c].products[p]
            Q == Requested(items[c], p)
        IN  (/\ Succeeded(c)
             /\ Q >= 1
             /\ HasStock(before) /\ before.in_stock
             /\ Q <= StockOf(before))
            => /\ products[p].stock_qty = Some(StockOf(before) - Q)
               /\ products[p].in_stock = (StockOf(before) - Q > 0)

\* C3 witness: one successful call that sold a product out and left another in stock.
C3_Witness ==
    \E c \in Calls :
        /\ Succeeded(c)
        /\ Requested(items[c], 1) = 2 /\ pre[c].products[1].stock_qty = Some(2)
        /\ Requested(items[c], 2) = 1 /\ pre[c].products[2].stock_qty = Some(2)
        /\ ~products[1].in_stock /\ products[2].in_stock

\* The sum of unit_amount * quantity over order items.
RECURSIVE ItemsTotal(_)
ItemsTotal(its) ==
    IF its = <<>> THEN 0
    ELSE its[1].unit_amount * its[1].quantity + ItemsTotal(Tail(its))

\* u is price8/8 major units in minor units: the integer nearest to 100 * price8 / 8,
\* the even one of the two when both are equally near.
IsMinorUnits(u, price8) ==
    LET d == 8 * u - 100 * price8
    IN  /\ -4 <= d /\ d <= 4
        /\ (d = 4 \/ d = -4) => u % 2 = 0

\* The order document a response names.
PersistedOrders(c) == {k \in 1..Len(orders) : orders[k].id = response[c].order_id}

\* C4: the subtotal of a successful response is the sum of unit_amount * quantity
\* over the items of the order it names, every unit_amount is the stored
\* product's price in minor units, and the persisted order has the same subtotal.
C4_TrustedSubtotal ==
    \A c \in Calls :
        Succeeded(c) =>
            /\ PersistedOrders(c) # {}
            /\ \A k \in PersistedOrders(c) :
                /\ orders[k].order.subtotal = response[c].subtotal
                /\ response[c].subtotal = ItemsTotal(orders[k].order.items)
                /\ Len(orders[k].order.items) = Len(items[c])
                /\ \A n \in 1..Len(orders[k].order.items) :
                    LET oi == orders[k].order.items[n]
                        stored == pre[c].products[ensure_object_id(items[c][n].product_id)]
                    IN  IsMinorUnits(oi.unit_amount, stored.price)

\* C4 witness: a successful call over two products with different prices, one of
\* them a rounding tie (1/8 = 12.5 cents).
C4_Witness ==
    \E c \in Calls :
        /\ Succeeded(c)
        /\ Len(items[c]) = 2
        /\ order_items[c][1].unit_amount = 12 /\ order_items[c][1].quantity = 2
        /\ order_items[c][2].unit_amount = 25
        /\ response[c].subtotal = 49

\* C5: a call with an empty cart ends with 400 "Cart is empty", and the order
\* collection and the products are as they were when it began.
C5_EmptyCart ==
    \A c \in Calls :
        (pc[c] # "idle" /\ items[c] = <<>>)
        => /\ Returned(c)
           /\ response[c] = HttpError(400, "Cart is empty")
           /\ products = pre[c].products
           /\ orders = pre[c].orders

\* C5 witness: the empty cart refused while a product is on sale and an order exists.
C5_Witness ==
    \E c \in Calls :
        /\ Returned(c) /\ items[c] = <<>> /\ response[c].code = 400
        /\ Len(orders) = 1
        /\ \E p \in ObjectIds : products[p].in_stock /\ products[p].stock_qty = Some(1)

\* How the claim classifies one cart line against the catalog `cat`.
LineClass(item, cat) ==
    LET wellFormed == item.product_id \in {HexStr(item.product_id[2]),
                                             UpperHexStr(item.product_id[2])}
        prod == cat[item.product_id[2]]
    IN  IF ~wellFormed THEN <<400, "Invalid ID format">>
        ELSE IF ~prod.exists THEN <<404, "Product not found">>
        ELSE IF ~prod.in_stock THEN <<400, "Insufficient stock">>
        ELSE IF prod.stock_qty = None THEN <<500, "TypeError">>
        ELSE IF prod.stock_qty[1] < item.quantity THEN <<400, "Insufficient stock">>
        ELSE IF item.quantity < 1 THEN <<500, "ValidationError">>
        ELSE <<200, "">>

FailingLines(cart, cat) == {n \in 1..Len(cart) : LineClass(cart[n], cat)[1] # 200}

\* C6: the lines are validated in input order and the call fails with the error
\* of its first failing line: 400 for a malformed id, 404 for a well-formed id
\* of no product, 400 for a product with in_stock false or stock_qty below the
\* quantity. Lines after the first failing one have no say.
C6_FirstFailingLine ==
    \A c \in Calls :
        (Returned(c) /\ items[c] # <<>>) =>
            LET failing == FailingLines(items[c], pre[c].products)
            IN  IF failing = {} THEN response[c].code = 200
                ELSE LET first == CHOOSE n \in failing : \A m \in failing : n <= m
                         class == LineClass(items[c][first], pre[c].products)
                     IN  /\ response[c].code = class[1]
                         /\ response[c].detail = class[2]
                         /\ idx[c] = first

\* C6 witness: the first line asks for more than is in stock and the second has
\* a malformed id; the call fails with the first line's error.
C6_Witness ==
    \E c \in Calls :
        /\ Returned(c) /\ Len(items[c]) = 2
        /\ items[c][2].product_id = JunkStr
        /\ items[c][1].quantity = 2
        /\ pre[c].products[1].stock_qty = Some(1) /\ pre[c].products[1].in_stock
        /\ response[c] = HttpError(400, "Insufficient stock")

\* The cart an order was made from.
CartOf(doc) == [n \in 1..Len(doc.order.items) |->
                  [product_id |-> doc.order.items[n].product_id,
                   quantity |-> doc.order.items[n].quantity]]

\* C7: checkout is not idempotent. Once the same cart has been checked out
\* twice, one call after the other, there are two orders with different ids and
\* every product's stock_qty is down by twice the quantity the cart asks for.
C7_NotIdempotent ==
    (Quiet /\ Len(orders) = 2 /\ CartOf(orders[1]) = CartOf(orders[2]))
    => /\ orders[1].id # orders[2].id
       /\ \A p \in ObjectIds :
            HasStock(created[p]) =>
                StockOf(products[p]) =
                    StockOf(created[p]) - 2 * Requested(CartOf(orders[1]), p)

\* C7 witness: the cart "one unit of product 1" checked out twice from a stock of 2.
C7_Witness ==
    /\ Quiet /\ Len(orders) = 2
    /\ CartOf(orders[1]) = <<[product_id |-> HexStr(1), quantity |-> 1]>>
    /\ CartOf(orders[2]) = CartOf(orders[1])
    /\ created[1].stock_qty = Some(2) /\ products[1].stock_qty = Some(0)

\* The units of product p in the persisted orders.
RECURSIVE SoldIn(_, _)
SoldIn(docs, p) ==
    IF docs = <<>> THEN 0
    ELSE Requested(CartOf(docs[1]), p) + SoldIn(Tail(docs), p)

\* C8: check-then-act race. Under interleaving a product's stock_qty does go
\* below zero (the witness), and whenever it is below zero the persisted orders
\* hold more units of the product than it was created with: units were sold
\* that were never in stock.
C8_NegativeStockIsOversold ==
    \A p \in ObjectIds :
        (HasStock(products[p]) /\ StockOf(products[p]) < 0)
        => SoldIn(orders, p) > StockOf(created[p])

\* C8 witness: two calls, each asking for the one unit in stock, both began
\* while the unit was there, both have their order and their 200, and the
\* product stands at -1.
C8_Witness ==
    \E c \in Calls : \E d \in Calls \ {c} : \E p \in ObjectIds :
        /\ Succeeded(c) /\ Succeeded(d)
        /\ items[c] = <<[product_id |-> HexStr(p), quantity |-> 1]>>
        /\ items[d] = items[c]
        /\ pre[c].products[p].stock_qty = Some(1)
        /\ pre[d].products[p].stock_qty = Some(1)
        /\ pre[c].orders = <<>> /\ pre[d].orders = <<>>
        /\ Len(orders) = 2 /\ response[c].order_id # response[d].order_id
        /\ products[p].stock_qty = Some(-1)

\* No call stands between its first stock write and its last.
NoStockPassRunning == \A c \in Calls : pc[c] \notin {"inc", "find", "set"}

\* C9 (as claimed): whenever no call is part-way through its stock-application
\* pass, every product with stock_qty 0 has in_stock false.
C9_ZeroStockIsOutOfStock ==
    NoStockPassRunning =>
        \A p \in ObjectIds :
            (HasStock(products[p]) /\ StockOf(products[p]) = 0) => ~products[p].in_stock

\* C10: a call whose cart has a line with quantity below 1 ends without a 200,
\* with the order collection and the products as they were when it began; and at
\* no point of any call is a product's stock_qty above what it was when the call
\* began.
C10_QuantityBelowOne ==
    \A c \in Calls :
        /\ (Returned(c) /\ \E n \in 1..Len(items[c]) : items[c][n].quantity < 1)
           => /\ response[c].code # 200
              /\ products = pre[c].products
              /\ orders = pre[c].orders
        /\ pc[c] # "idle" =>
              \A p \in ObjectIds :
                  HasStock(pre[c].products[p]) =>
                      StockOf(products[p]) <= StockOf(pre[c].products[p])

\* C10 witness: a valid first line followed by a line of quantity -1 for a
\* product in stock, refused when the order item is built.
C10_Witness ==
    \E c \in Calls :
        /\ Returned(c) /\ Len(items[c]) = 2
        /\ items[c][1].quantity = 1 /\ items[c][2].quantity = -1
        /\ response[c] = HttpError(500, "ValidationError")
        /\ pre[c].products[1].in_stock /\ pre[c].products[1].stock_qty = Some(2)

\* Every order document of the collection is still there, unchanged.
OrdersKept ==
    /\ Len(orders') \in {Len(orders), Len(orders) + 1}
    /\ \A k \in 1..Len(orders) : orders'[k] = orders[k]

\* C11: a successful call has inserted exactly one order; no step modifies or
\* removes an order that is stored; every stored order has status "pending",
\* also the one whose call answered "confirmed".
C11_OrdersImmutable ==
    /\ [](\A k \in 1..Len(orders) : orders[k].order.status = "pending")
    /\ [](\A c \in Calls :
            Succeeded(c) =>
                /\ response[c].status = "confirmed"
                /\ Len(orders) = Len(pre[c].orders) + 1
                /\ orders[Len(orders)] =
                     [id |-> response[c].order_id,
                      order |-> Order(order_items[c], subtotal_cents[c])])
    /\ [][OrdersKept]_vars

\* C11 witness: a second successful call has answered "confirmed"; its order and
\* the first one are stored with status "pending".
C11_Witness ==
    \E c \in Calls :
        /\ Succeeded(c) /\ response[c].status = "confirmed"
        /\ Len(orders) = 2 /\ Len(pre[c].orders) = 1
        /\ orders[1] = pre[c].orders[1]
        /\ orders[2].id = response[c].order_id
        /\ orders[2].order.status = "pending"

OrderIds == {orders[k].id : k \in 1..Len(orders)}

\* The units of product p on the stock updates of call c that a halt left unapplied.
RECURSIVE UnappliedFrom(_, _, _)
UnappliedFrom(c, n, p) ==
    IF n > Len(stock_updates[c]) THEN 0
    ELSE (IF stock_updates[c][n].pid = p THEN stock_updates[c][n].qty ELSE 0)
         + UnappliedFrom(c, n + 1, p)

Unapplied(c, p) ==
    IF pc[c] = "crashed" /\ order_id[c] # <<"none", 0>>
    THEN UnappliedFrom(c, idx[c] + 1, p)
    ELSE 0

RECURSIVE UnappliedOfCalls(_, _)
UnappliedOfCalls(n, p) ==
    IF n = 0 THEN 0 ELSE Unapplied(n, p) + UnappliedOfCalls(n - 1, p)

\* C12: no rollback after persist. A call writes no stock before its order is
\* inserted, and its order is stored from then on, also when the call halts. Once
\* no call is running, every product's stock_qty is short of what the stored
\* orders sold by exactly the units the halted calls left unapplied: the order
\* of a halted call stays and nothing later makes up the missing decrements.
C12_NoRollback ==
    /\ \A c \in Calls :
        /\ pc[c] \in {"validate", "persist"} => products = pre[c].products
        /\ pc[c] \in {"inc", "find", "set", "return"} => order_id[c] \in OrderIds
        /\ (pc[c] = "crashed" /\ stock_updates[c] # <<>>) => order_id[c] \in OrderIds
    /\ InFlight \subseteq {c \in Calls : Returned(c)}
       => \A p \in ObjectIds :
            HasStock(created[p]) =>
                StockOf(created[p]) - StockOf(products[p])
                    = SoldIn(orders, p) - UnappliedOfCalls(NumCalls, p)

\* C12 witness: a call halted after the first of its two stock updates; its order
\* is stored, product 2 still has the stock it was created with, and a later
\* call has run to its 200 without changing that.
C12_Witness ==
    \E c \in Calls : \E d \in Calls \ {c} :
        /\ pc[c] = "crashed" /\ idx[c] = 1 /\ Len(stock_updates[c]) = 2
        /\ stock_updates[c][2].pid = 2
        /\ order_id[c] \in OrderIds
        /\ Succeeded(d) /\ pre[d].orders # <<>>
        /\ HasStock(products[2]) /\ products[2].stock_qty = created[2].stock_qty

\* The products a cart names.
Named(cart) ==
    {p \in ObjectIds :
        \E n \in 1..Len(cart) : cart[n].product_id \in {HexStr(p), UpperHexStr(p)}}

\* C13: frame of a successful checkout. A product the cart does not name is as
\* it was when the call began; a product the cart names differs from what it was
\* at most in stock_qty and in_stock.
C13_Frame ==
    \A c \in Calls :
        Succeeded(c) =>
            \A p \in ObjectIds :
                LET before == pre[c].products[p]
                    after  == products[p]
                IN  IF p \in Named(items[c])
                    THEN [after EXCEPT !.stock_qty = before.stock_qty,
                                       !.in_stock = before.in_stock] = before
                    ELSE after = before

\* C13 witness: a successful call for product 1 alone has sold it out, while
\* product 2 is on sale and untouched.
C13_Witness ==
    \E c \in Calls :
        /\ Succeeded(c) /\ Named(items[c]) = {1}
        /\ products[1] # pre[c].products[1] /\ ~products[1].in_stock
        /\ products[1].price = 2 /\ products[1].title = "bag"
        /\ products[2].in_stock /\ products[2].stock_qty = Some(2)

\* C14: the order of a successful call has one item per cart line, in the order
\* of the lines; item n names the product of line n (under the id's canonical
\* spelling) and carries the quantity of line n. Lines of one product stay apart.
C14_OneItemPerLine ==
    \A c \in Calls :
        Succeeded(c) =>
            \A k \in PersistedOrders(c) :
                LET its == orders[k].order.items
                IN  /\ Len(its) = Len(items[c])
                    /\ \A n \in 1..Len(its) :
                        /\ its[n].quantity = items[c][n].quantity
                        /\ \E p \in ObjectIds :
                            /\ its[n].product_id = HexStr(p)
                            /\ items[c][n].product_id \in {HexStr(p), UpperHexStr(p)}

\* C14 witness: a cart with two lines for product 1, of 1 and 2 units, the
\* second spelling the id in upper case; the order has the two items, not one.
C14_Witness ==
    \E c \in Calls :
        /\ Succeeded(c)
        /\ items[c] = <<[product_id |-> HexStr(1), quantity |-> 1],
                        [product_id |-> UpperHexStr(1), quantity |-> 2]>>
        /\ \E k \in PersistedOrders(c) :
            /\ Len(orders[k].order.items) = 2
            /\ orders[k].order.items[1].quantity = 1
            /\ orders[k].order.items[2].quantity = 2
            /\ orders[k].order.items[2].product_id = HexStr(1)

\* A step leaves every product in place, with no more stock than it had and not
\* back in stock once it was out of stock.
ProductsOnlyShrink ==
    \A p \in ObjectIds :
        products[p].exists =>
            /\ products'[p].exists
            /\ HasStock(products[p]) =>
                  (HasStock(products'[p]) /\ StockOf(products'[p]) <= StockOf(products[p]))
            /\ ~products[p].in_stock => ~products'[p].in_stock

\* C15: monotonicity of inventory. Under any interleaving of the calls, no step
\* raises a product's stock_qty and no step turns in_stock from false to true.
C15_InventoryMonotone == [][ProductsOnlyShrink]_vars

\* C15 witness: a cart asking for -1 unit of a product has been refused, the
\* product's stock is below what it was created with, and another product has
\* gone out of stock.
C15_Witness ==
    \E c \in Calls : \E p \in ObjectIds : \E q \in ObjectIds \ {p} :
        /\ Returned(c) /\ response[c].code = 500
        /\ items[c] = <<[product_id |-> HexStr(p), quantity |-> -1]>>
        /\ HasStock(products[p]) /\ StockOf(products[p]) < StockOf(created[p])
        /\ products[p].in_stock
        /\ created[q].in_stock /\ ~products[q].in_stock

\* C16: stock conservation. Whenever every call that began has returned, under
\* any interleaving, what a product has lost since its creation is the sum of
\* the quantities of its items over all stored orders.
C16_StockConservation ==
    Quiet =>
        \A p \in ObjectIds :
            HasStock(created[p]) =>
                StockOf(created[p]) - StockOf(products[p]) = SoldIn(orders, p)

\* C16 witness: two calls that began before either had written, one for 2 units
\* and one for 1 unit of product 1, have both returned 200; product 1 is down by 3.
C16_Witness ==
    \E c \in Calls : \E d \in Calls \ {c} :
        /\ Succeeded(c) /\ Succeeded(d)
        /\ pre[c].orders = <<>> /\ pre[d].orders = <<>>
        /\ pre[c].products = pre[d].products
        /\ Requested(items[c], 1) = 2 /\ Requested(items[d], 1) = 1
        /\ SoldIn(orders, 1) = 3
        /\ StockOf(created[1]) - StockOf(products[1]) = 3

\* C18: the availability flag converges. Whenever every call that began has
\* returned, under any interleaving, a product that checkouts have brought down
\* to a stock_qty of 0 or less has in_stock false.
C18_FlagConverges ==
    Quiet =>
        \A p \in ObjectIds :
            (/\ HasStock(created[p])
             /\ StockOf(products[p]) < StockOf(created[p])
             /\ StockOf(products[p]) <= 0)
            => ~products[p].in_stock

\* C18 witness: two calls for 1 unit each of a product created with 2, begun
\* before either had written, have both returned; the product is at 0 and out of
\* stock.
C18_Witness ==
    \E c \in Calls : \E d \in Calls \ {c} : \E p \in ObjectIds :
        /\ Succeeded(c) /\ Succeeded(d)
        /\ pre[c].orders = <<>> /\ pre[d].orders = <<>>
        /\ pre[c].products = pre[d].products
        /\ items[c] = <<[product_id |-> HexStr(p), quantity |-> 1]>>
        /\ items[d] = items[c]
        /\ created[p].stock_qty = Some(2) /\ created[p].in_stock
        /\ products[p].stock_qty = Some(0) /\ ~products[p].in_stock

\* The products a cart names that were out of stock when call c began.
NamedOutOfStock(c) ==
    {p \in Named(items[c]) : pre[c].products[p].exists /\ ~pre[c].products[p].in_stock}

\* C17: sold-out is absorbing. A call that begins when a product its cart names
\* has in_stock false never gets as far as the order insertion: it ends with an
\* error, and the order collection and every product, the flag of that product
\* included, are as they were when it began.
C17_SoldOutAbsorbing ==
    \A c \in Calls :
        (pc[c] # "idle" /\ items[c] # <<>> /\ NamedOutOfStock(c) # {}) =>
            /\ pc[c] \in {"validate", "done"}
            /\ products = pre[c].products
            /\ orders = pre[c].orders
            /\ Returned(c) => response[c].code \in {400, 404, 500}

\* C17 witness: product 1, sold out by an earlier order, and product 2, created
\* out of stock with 2 units, are refused: the call's first line, for product 2,
\* and its cart also names product 1; an order exists and nothing has changed.
C17_Witness ==
    \E c \in Calls :
        /\ Returned(c) /\ response[c] = HttpError(400, "Insufficient stock")
        /\ NamedOutOfStock(c) = {1, 2}
        /\ Len(orders) = 1 /\ SoldIn(orders, 1) = 2
        /\ created[1].in_stock /\ created[1].stock_qty = Some(2)
        /\ products[1].stock_qty = Some(0)
        /\ ~created[2].in_stock /\ products[2].stock_qty = Some(2)

====
